---- MODULE Spec2Model ----
(***************************************************************************)
(* Model of the documentation link resolver of togglebot                   *)
(* (src/handler/user/doc.rs): `find` with its in-memory LRU link cache,    *)
(* the per-crate index files on disk and the two-step remote fetch.        *)
(*                                                                         *)
(* Strings are tuples of one-character strings, so that parsing a path is  *)
(* a computation on the characters.  Time is counted in days, and a file   *)
(* carries the age of its last modification, followed at the ages where    *)
(* index_from_file may change its mind.                                    *)
(***************************************************************************)
EXTENDS Integers, Sequences, FiniteSets, TLC

\* ------------------------------------------------------------------ bounds

\* Largest capacity the link cache is constructed with in the model (the
\* program constructs it with 500, doc.rs:22; every capacity 1..MaxCapacity
\* is explored in its place).
MaxCapacity == 2

\* ----------------------------------------------------------- characters

Letters == {"a", "b", "R", "S"}
Digits == {"1"}

Sep == <<":", ":">>

\* Raw queries the chat users send.  "", "::" and "1a" are malformed; the
\* others name an item of crate a or b (a::S is missing in some versions of
\* crate a).
Queries ==
  { <<>>, Sep, <<"1", "a">>,
    <<"a">> \o Sep \o <<"R">>, <<"a">> \o Sep \o <<"S">>,
    <<"b">> \o Sep \o <<"R">> }

Crates == { <<"a">>, <<"b">> }

Tasks == {"t1", "t2"}

\* --------------------------------------------------------- SimplePath

\* str::split("::"): the parts of s between the separators; cur is the part
\* being read.
RECURSIVE SplitFrom(_, _)
SplitFrom(s, cur) ==
  IF s = <<>> THEN <<cur>>
  ELSE IF Len(s) >= 2 /\ s[1] = ":" /\ s[2] = ":"
       THEN <<cur>> \o SplitFrom(SubSeq(s, 3, Len(s)), <<>>)
       ELSE SplitFrom(Tail(s), Append(cur, s[1]))

Split(s) == SplitFrom(s, <<>>)

\* An identifier: a letter or underscore, then letters, digits, underscores.
IsIdent(part) ==
  /\ part # <<>>
  /\ part[1] \in Letters \cup {"_"}
  /\ \A i \in 2..Len(part) : part[i] \in Letters \cup Digits \cup {"_"}

\* path.parse::<SimplePath>(): Ok when every part is an identifier.  The
\* path keeps the original string and the length of its crate name.
ParseSimplePath(s) ==
  LET parts == Split(s)
  IN IF \A i \in 1..Len(parts) : IsIdent(parts[i])
     THEN [ok |-> TRUE, str |-> s, crate_len |-> Len(parts[1])]
     ELSE [ok |-> FALSE, str |-> s, crate_len |-> 0]

\* SimplePath::crate_name
crate_name(path) == SubSeq(path.str, 1, path.crate_len)

\* SimplePath::into_inner
into_inner(path) == path.str

\* ------------------------------------------------------------- Index

\* The items a crate's documentation may hold.
ItemsOf(c) == { q \in Queries : ParseSimplePath(q).ok
                                 /\ crate_name(ParseSimplePath(q)) = c }

NoIndex == [crate |-> <<>>, items |-> {}]

\* The indexes the documentation host may serve for crate c: one per
\* published set of items that holds at least the first of them.
IndexesOf(c) ==
  { [crate |-> c, items |-> it] : it \in { s \in SUBSET ItemsOf(c) : c \o Sep \o <<"R">> \in s } }

\* The URL the index gives for an item.
Link(str) == <<"https://docs.rs/">> \o str

NoLink == <<>>

\* Index::find_link: the URL of the path, or NoLink (None).
find_link(idx, path) ==
  IF path.str \in idx.items THEN Link(path.str) ELSE NoLink

\* serde_json::to_vec / from_slice
Corrupt == [valid |-> FALSE, idx |-> NoIndex]

Serialize(idx) == [valid |-> TRUE, idx |-> idx]

Deserialize(buf) == [ok |-> buf.valid, idx |-> buf.idx]

\* ---------------------------------------------------------- LruCache

\* LruCache::with_capacity(n): entries from the least to the most recently
\* used.
with_capacity(n) == [capacity |-> n, list |-> <<>>]

\* As LINK_CACHE, but constructed without a limit that is ever reached.
LINK_CACHE_Unbounded(n) == with_capacity(n + 6)

\* LINK_CACHE, constructed for capacity n on first use.
LINK_CACHE(n) == with_capacity(n)

Keys(cache) == { cache.list[i].key : i \in 1..Len(cache.list) }

Without(list, k) == SelectSeq(list, LAMBDA e : e.key # k)

\* The last n entries of a list.
LastN(list, n) ==
  IF Len(list) <= n THEN list ELSE SubSeq(list, Len(list) - n + 1, Len(list))

\* LruCache::get, the value: the entry's value, or NoLink (None).
LruGet(cache, k) ==
  IF k \in Keys(cache)
  THEN (CHOOSE e \in { cache.list[i] : i \in 1..Len(cache.list) } : e.key = k).value
  ELSE NoLink

\* LruCache::get, the cache afterwards: a hit makes the entry the most
\* recently used.
LruTouch(cache, k) ==
  IF k \in Keys(cache)
  THEN [cache EXCEPT !.list = Append(Without(@, k), [key |-> k, value |-> LruGet(cache, k)])]
  ELSE cache

\* LruCache::insert: an existing key is overwritten and becomes the most
\* recently used; for a new key the least recently used entries are
\* removed while the cache is full.
LruInsert(cache, k, v) ==
  IF k \in Keys(cache)
  THEN [cache EXCEPT !.list = Append(Without(@, k), [key |-> k, value |-> v])]
  ELSE [cache EXCEPT !.list = Append(LastN(@, cache.capacity - 1), [key |-> k, value |-> v])]

\* ------------------------------------------------------------- disk

\* A file of the index directory: its bytes and the days since its last
\* modification.
Absent == [exists |-> FALSE, buf |-> Corrupt, age |-> 0]

File(buf, age) == [exists |-> TRUE, buf |-> buf, age |-> age]

\* As index_file_name, but one file for all crates.
index_file_name_Shared(path) == <<"a">>

\* index_file_name: the file of the path's crate, <dir>/<crate>.json.
index_file_name(path) == crate_name(path)

\* Duration::from_secs(60 * 60 * 24 * 3), in days
OUTDATED_AFTER == 3

\* As Outdated, but a file is accepted for a day longer.
Outdated_OffByOne(file) == file.age > OUTDATED_AFTER + 1

\* index_from_file, line 70: whether the file is outdated.
Outdated(file) == file.age > OUTDATED_AFTER

\* The ages a file is followed at are 0 (new), OUTDATED_AFTER and
\* OUTDATED_AFTER + 1 (outdated): the age that follows age a.
Older(a) == IF a < OUTDATED_AFTER THEN OUTDATED_AFTER ELSE OUTDATED_AFTER + 1

\* ------------------------------------------------------------ results

NoResult == [ok |-> FALSE, kind |-> "none", val |-> <<>>]

\* Ok(link)
OkLink(link) == [ok |-> TRUE, kind |-> "link", val |-> link]

\* Ok(format!("The path `{path}` is invalid: {e}"))
OkInvalid(raw) == [ok |-> TRUE, kind |-> "invalid", val |-> raw]

\* Ok(format!("Item `{path}` doesn't exist"))
OkMissing(path) == [ok |-> TRUE, kind |-> "missing", val |-> path.str]

\* Err(e)
Err(e) == [ok |-> FALSE, kind |-> e, val |-> <<>>]

\* -------------------------------------------------------------- state

VARIABLES
  capacity,   \* the capacity LINK_CACHE is constructed with
  linkCache,  \* LINK_CACHE: the LRU cache from path strings to links
  lock,       \* the task holding the mutex of LINK_CACHE, or "none"
  disk,       \* the index directory: the file of each crate
  procs,      \* the tasks that handle chat commands
  asked,      \* the queries the users send
  pc,         \* where each task is in find
  query,      \* find's argument of each task's call
  index,      \* the index the call has loaded or fetched
  result,     \* what the call returned
  ops,        \* what the call has done and met so far
  before,     \* whether the call right before had the same query, and its link
  atCall,     \* the link cache when the call started, and whether the disk was empty
  last,       \* the call that completed last, until the next call starts
  touched,    \* the keys of the link cache, from the least to the most recently touched
  cacheOp     \* the last operation on the link cache and what it removed

\* The state of find: the link cache, the index directory and the calls.
findVars == <<capacity, linkCache, lock, disk, procs, asked, pc, query, index,
              result, ops, before, atCall, last, touched, cacheOp>>

VARIABLES
  owners,     \* settings.owners: the Discord ids of the owners
  admins,     \* the admins table of the state database: ids as stored (i64)
  author,     \* the author of the message access was last asked for
  lookup,     \* what state.is_admin returned for that author, if it was asked
  level       \* the access level that access returned

VARIABLES
  queue,      \* the queue from the service connectors to the handler
  invoked     \* the slash command that each message of the queue came from

VARIABLES
  text,       \* the chat message given to parse
  msgSource,  \* the service it came from
  mention,    \* the id of the user it mentions, or 0 for none
  parsed      \* what parse returned for it

\* The state of the access check.
accessVars == <<owners, admins, author, lookup, level>>

\* The state of the Discord connector.
slashVars == <<queue, invoked>>

VARIABLES
  commands,   \* the custom_cmds table of the state database: its rows
  cmdLog,     \* the calls that changed the table and returned Ok, in their order
  got         \* what get_custom_command returned last, after the last change

\* The state of the text parser.
parseVars == <<text, msgSource, mention, parsed>>

\* The state of the custom command store.
storeVars == <<commands, cmdLog, got>>

VARIABLES
  cmd_usage,  \* the cmd_usage table of the database: its rows of this month
  statLog,    \* the calls of increment and erase_custom that returned Ok, in their order
  stats       \* what get(false) returned last, after the last of those calls

\* The state of the statistics.
statsVars == <<cmd_usage, statLog, stats>>

VARIABLES
  custom_commands,  \* state.custom_commands: for a name, the content on each source
  edited            \* the name of the last call of the custom_commands handler, and its result

\* The state of the custom commands of the admins.
adminVars == <<custom_commands, edited>>

\* The state outside find.
others == <<accessVars, slashVars, parseVars, storeVars, statsVars, adminVars>>

\* The state outside the access check, outside the Discord connector and
\* outside the text parser.
outsideAccess == <<findVars, slashVars, parseVars, storeVars, statsVars, adminVars>>

outsideSlash == <<findVars, accessVars, parseVars, storeVars, statsVars, adminVars>>

outsideParse == <<findVars, accessVars, slashVars, storeVars, statsVars, adminVars>>

outsideStore == <<findVars, accessVars, slashVars, parseVars, statsVars, adminVars>>

\* The state outside the custom commands of the admins and the statistics
\* that they erase.
outsideAdmin == <<findVars, accessVars, slashVars, parseVars, storeVars>>

\* The state outside the statistics.
outsideStats == <<findVars, accessVars, slashVars, parseVars, storeVars, adminVars>>

vars == <<findVars, others>>

\* No message yet whose author's access was asked for.
NoAuthor == [kind |-> "none", num |-> 0, name |-> ""]

\* The access check is not in use.
NoAccess ==
  /\ owners = {}
  /\ admins = {}
  /\ author = NoAuthor
  /\ lookup = "none"
  /\ level = "none"

\* No slash command was used.
NoSlash ==
  /\ queue = <<>>
  /\ invoked = <<>>

\* parse has not returned.
NotParsed == [tag |-> "none", kind |-> "", variant |-> "", source |-> "",
              name |-> <<>>, content |-> <<>>, num |-> 0]

\* No chat message was given to parse.
NoParse ==
  /\ text = <<>>
  /\ msgSource = "none"
  /\ mention = 0
  /\ parsed = NotParsed

\* get_custom_command was not called since the last change.
NoGet == [ok |-> FALSE, source |-> "", name |-> "", val |-> ""]

\* The custom command store is empty.
NoStore ==
  /\ commands = {}
  /\ cmdLog = <<>>
  /\ got = NoGet

\* get(false) was not called since the last change.
NoStatistics == [tag |-> "none", command_usage |-> {}]

\* Nothing was counted.
NoStats ==
  /\ cmd_usage = {}
  /\ statLog = <<>>
  /\ stats = NoStatistics

\* The custom_commands handler was not called.
NotEdited == [name |-> <<>>, res |-> "none"]

\* No custom commands (State::default), and no call.
NoAdmin ==
  /\ custom_commands = << >>
  /\ edited = NotEdited

\* Nothing outside find is in use.
InitOthers == NoAccess /\ NoSlash /\ NoParse /\ NoStore /\ NoStats /\ NoAdmin

\* The record of the operations on the link cache.
cacheLog == <<touched, cacheOp>>

NoOp == [op |-> "none", key |-> <<>>, value |-> NoLink, evicted |-> {},
         again |-> FALSE, size |-> 0]

NoCall == [query |-> <<>>, result |-> NoResult]

NoRepeat == [repeat |-> FALSE, link |-> NoLink]

\* What a call for q keeps of the call that completed right before it.
Repeat(call, q) ==
  IF call = NoCall \/ call.query # q THEN NoRepeat
  ELSE [repeat |-> TRUE,
        link |-> IF call.result.kind = "link" THEN call.result.val ELSE NoLink]

\* The parsed path of the task's query.
PathOf(t) == ParseSimplePath(query[t])

Active(t) == pc[t] \notin {"idle", "done"}

EmptyDisk == \A c \in Crates : ~ disk[c].exists

\* The files a previous run of the bot may have left behind.
OldFiles(c) ==
  {Absent} \cup { File(buf, 0) : buf \in {Corrupt} \cup { Serialize(i) : i \in IndexesOf(c) } }

\* The link cache before its first use.
InitCache ==
  /\ capacity \in 1..MaxCapacity
  /\ linkCache = LINK_CACHE(capacity)
  /\ lock = "none"
  /\ touched = <<>>
  /\ cacheOp = NoOp

\* No call of find yet.
InitCalls ==
  /\ pc = [t \in Tasks |-> "idle"]
  /\ query = [t \in Tasks |-> <<>>]
  /\ index = [t \in Tasks |-> NoIndex]
  /\ result = [t \in Tasks |-> NoResult]
  /\ ops = [t \in Tasks |-> {}]
  /\ before = [t \in Tasks |-> NoRepeat]
  /\ atCall = [t \in Tasks |-> [cache |-> linkCache, empty_disk |-> EmptyDisk]]
  /\ last = NoCall

\* One task handles the commands, one after the other; the index directory
\* holds what a previous run left.
Init ==
  /\ InitCache
  /\ disk \in [Crates -> UNION { OldFiles(c) : c \in Crates }]
  /\ \A c \in Crates : disk[c] \in OldFiles(c)
  /\ InitCalls
  /\ procs = {"t1"}
  /\ asked = Queries
  /\ InitOthers

\* ------------------------------------------------------------ steps

\* The call goes on at p, having done op.
Goto(t, p, op) ==
  /\ pc' = [pc EXCEPT ![t] = p]
  /\ ops' = [ops EXCEPT ![t] = @ \cup op]
  /\ UNCHANGED <<result, last>>

\* The call returns res, having done op.
Return(t, res, op) ==
  /\ pc' = [pc EXCEPT ![t] = "done"]
  /\ ops' = [ops EXCEPT ![t] = @ \cup op]
  /\ result' = [result EXCEPT ![t] = res]
  /\ last' = [query |-> query[t], result |-> res]

\* find(path) is called by task t.
Call(t, q) ==
  /\ ~ Active(t)
  /\ pc' = [pc EXCEPT ![t] = "lockGet"]
  /\ query' = [query EXCEPT ![t] = q]
  /\ index' = [index EXCEPT ![t] = NoIndex]
  /\ result' = [result EXCEPT ![t] = NoResult]
  /\ ops' = [ops EXCEPT ![t] = {}]
  /\ before' = [u \in Tasks |->
                  IF \E v \in Tasks \ {t} : Active(v) THEN NoRepeat
                  ELSE IF u # t THEN before[u]
                  ELSE Repeat(last, q)]
  /\ atCall' = [atCall EXCEPT ![t] = [cache |-> linkCache, empty_disk |-> EmptyDisk]]
  /\ last' = NoCall
  /\ UNCHANGED <<others, cacheLog, capacity, linkCache, lock, disk, procs, asked>>

\* LINK_CACHE.lock().await
Lock(t) ==
  /\ pc[t] \in {"lockGet", "lockInsert"}
  /\ lock = "none"
  /\ lock' = t
  /\ pc' = [pc EXCEPT ![t] = IF pc[t] = "lockGet" THEN "get" ELSE "insert"]
  /\ UNCHANGED <<others, cacheLog, capacity, linkCache, disk, procs, asked, query, index, result,
                 ops, before, atCall, last>>

\* As GuardDropped, but the guard lives on after the statement.
GuardDropped_Kept(t) == t

\* find, lines 28-31 and 51-54: the guard of LINK_CACHE.lock().await is a
\* temporary of the statement that uses it and is dropped with it: the
\* holder of the lock after task t's statement.
GuardDropped(t) == "none"

\* As CacheLookup, but a query that is not in the cache gets an entry with
\* no link, to be filled in later.
CacheLookup_Reserves(cache, k) ==
  IF k \in Keys(cache) THEN LruTouch(cache, k) ELSE LruInsert(cache, k, NoLink)

\* As CacheLookup, but with LruCache::peek, which leaves the order alone.
CacheLookup_Peek(cache, k) == cache

\* find, line 28: the link cache after LINK_CACHE.lock().await.get(path).
CacheLookup(cache, k) == LruTouch(cache, k)

\* As CacheStore, but every insert adds an entry, as if the key were new.
CacheStore_Append(cache, k, v) ==
  [cache EXCEPT !.list = Append(LastN(@, cache.capacity - 1), [key |-> k, value |-> v])]

\* find, lines 51-54: the link cache after the insert of the link.
CacheStore(cache, k, v) == LruInsert(cache, k, v)

\* As InvalidPath, but the parse error is returned with `?`.
InvalidPath_Propagated(raw) == Err("invalid")

\* find, line 35: the answer to a path that does not parse.
InvalidPath(raw) == OkInvalid(raw)

\* As Hit, but the link of the cache is not trusted: the call goes on to
\* the file of the crate.
Hit_Revalidated(t, link) == Goto(t, "meta", {"parse"})

\* find, lines 28-31: the link that the memory cache has for the query is
\* returned at once.
Hit(t, link) == Return(t, OkLink(link), {})

\* find, lines 28-37: the lookup in the memory cache under the lock; on a
\* miss the lock is released and the path is parsed.
CacheGet(t) ==
  /\ pc[t] = "get"
  /\ lock = t
  /\ lock' = GuardDropped(t)
  /\ linkCache' = CacheLookup(linkCache, query[t])
  /\ IF LruGet(linkCache, query[t]) # NoLink
     THEN Hit(t, LruGet(linkCache, query[t]))
     ELSE IF PathOf(t).ok
          THEN Goto(t, "meta", {"parse"})
          ELSE Return(t, InvalidPath(query[t]), {"parse"})
  /\ UNCHANGED <<others, cacheLog, capacity, disk, procs, asked, query, index, before, atCall>>

\* As WithIndex, but what find_link returned is cached in any case.
WithIndex_CachesMiss(t, idx, op) ==
  /\ index' = [index EXCEPT ![t] = idx]
  /\ Goto(t, "lockInsert", op)

\* find, lines 50-58, once the index is there: the link is looked up; a
\* link goes on to the insert into the memory cache, no link is answered
\* at once.
WithIndex(t, idx, op) ==
  /\ index' = [index EXCEPT ![t] = idx]
  /\ IF find_link(idx, PathOf(t)) # NoLink
     THEN Goto(t, "lockInsert", op)
     ELSE Return(t, OkMissing(PathOf(t)), op)

\* As Fallback, but only a missing or outdated file leads to the fetch, any
\* other error of index_from_file is returned with `?`.
Fallback_Strict(t, op) ==
  /\ IF op \cap {"corrupt", "io_error"} # {}
     THEN Return(t, Err("disk"), op)
     ELSE Goto(t, "start_search", op)
  /\ UNCHANGED index

\* find, lines 44-47: index_from_file failed, for whatever reason (op
\* names it): the index is fetched from the remote.
Fallback(t, op) ==
  /\ Goto(t, "start_search", op)
  /\ UNCHANGED index

\* As Loaded, but a fresh index is fetched although the file was loaded.
Loaded_Refetched(t, idx, op) == Fallback(t, op)

\* find, lines 39-43: index_from_file returned the index of the file, and
\* find uses it.
Loaded(t, idx, op) == WithIndex(t, idx, op)

\* index_from_file, lines 68-72: fs::metadata and the age of the file.
Metadata(t) ==
  /\ pc[t] = "meta"
  /\ LET file == disk[index_file_name(PathOf(t))]
     IN \/ /\ file.exists
           /\ IF Outdated(file)
              THEN Fallback(t, {"meta", "outdated"})
              ELSE Goto(t, "read", {"meta"}) /\ UNCHANGED index
        \/ /\ ~ file.exists
           /\ Fallback(t, {"meta", "absent"})
        \/ Fallback(t, {"meta", "io_error"})
  /\ UNCHANGED <<others, cacheLog, capacity, linkCache, lock, disk, procs, asked, query, before, atCall>>

\* index_from_file, lines 74-77: fs::read and serde_json::from_slice.
ReadFile(t) ==
  /\ pc[t] = "read"
  /\ LET file == disk[index_file_name(PathOf(t))]
     IN \/ /\ file.exists
           /\ IF Deserialize(file.buf).ok
              THEN Loaded(t, Deserialize(file.buf).idx, {"read"})
              ELSE Fallback(t, {"read", "corrupt"})
        \/ Fallback(t, {"read", "io_error"})
  /\ UNCHANGED <<others, cacheLog, capacity, linkCache, lock, disk, procs, asked, query, before, atCall>>

\* The final status of a response, after the redirects that the client
\* follows: success, a redirection that the client does not follow (Not
\* Modified, or one without a location), not found, and a server error.
Statuses == {200, 304, 404, 500}

\* download_url, line 124: Response::error_for_status is an error for the
\* client errors (4xx) and the server errors (5xx), and for no other status.
error_for_status(status) == status \in 400..599

\* download_url: "ok" for the body of the response, and else the error:
\* send failed, or the status is an error (not found is told apart from
\* the other failures).
download_url(sent, status) ==
  IF ~ sent THEN "failed"
  ELSE IF error_for_status(status)
       THEN IF status = 404 THEN "not_found" ELSE "failed"
       ELSE "ok"

\* What a call has met when the body it used came with a status that is
\* not a success.
StatusOp(status) == IF status \in 200..299 THEN {} ELSE {"not2xx"}

\* The answers to the search start: the outcome of the download, and for a
\* body whether find_index finds the index in it.
StartAnswers ==
  { [status |-> status, got |-> download_url(sent, status), names_index |-> names]
      : sent \in BOOLEAN, status \in Statuses, names \in BOOLEAN }

\* index_from_remote, lines 85-88: the download of the search start and
\* find_index; a failure of either is find's error.
StartSearch(t) ==
  /\ pc[t] = "start_search"
  /\ \E answer \in StartAnswers :
       IF answer.got # "ok"
       THEN Return(t, Err(answer.got), {"net", answer.got})
       ELSE IF answer.names_index
            THEN Goto(t, "get_index", {"net"} \cup StatusOp(answer.status))
            ELSE Return(t, Err("no_index"), {"net", "no_index"} \cup StatusOp(answer.status))
  /\ UNCHANGED <<others, cacheLog, capacity, linkCache, lock, disk, procs, asked, query, index,
                 before, atCall>>

\* index_from_remote, lines 89-91: the download of the index and
\* transform_index; a failure of either is find's error.
GetIndex(t) ==
  /\ pc[t] = "get_index"
  /\ \E sent \in BOOLEAN, status \in Statuses :
       IF download_url(sent, status) # "ok"
       THEN /\ Return(t, Err("failed"), {"net"})
            /\ UNCHANGED index
       ELSE \/ \E idx \in IndexesOf(crate_name(PathOf(t))) :
                 /\ index' = [index EXCEPT ![t] = idx]
                 /\ Goto(t, "create_dir", {"net", "fetched"} \cup StatusOp(status))
            \/ /\ Return(t, Err("bad_index"), {"net"} \cup StatusOp(status))
               /\ UNCHANGED index
  /\ UNCHANGED <<others, cacheLog, capacity, linkCache, lock, disk, procs, asked, query, before, atCall>>

\* As AfterSave, but the error of save_index is returned with `?`.
AfterSave_Propagated(t, op) ==
  IF "save_failed" \in op
  THEN Return(t, Err("save"), op) /\ UNCHANGED index
  ELSE WithIndex(t, index[t], op)

\* index_from_remote, lines 93-97: whatever save_index returned, the
\* fetched index is returned to find.
AfterSave(t, op) == WithIndex(t, index[t], op)

\* save_index, lines 102-104: create_dir_all; a failure ends save_index.
CreateDir(t) ==
  /\ pc[t] = "create_dir"
  /\ \/ Goto(t, "write", {"mkdir"}) /\ UNCHANGED index
     \/ AfterSave(t, {"mkdir", "save_failed"})
  /\ UNCHANGED <<others, cacheLog, capacity, linkCache, lock, disk, procs, asked, query, before, atCall>>

\* As Overwrite, but a file that exists is left as it is.
Overwrite_KeepsOld(file, buf) == IF file.exists THEN file ELSE File(buf, 0)

\* As Overwrite, but the bytes are added to the end of an existing file: two
\* documents in a row are no index.
Overwrite_Append(file, buf) == IF file.exists THEN File(Corrupt, 0) ELSE File(buf, 0)

\* save_index, line 105: the file after fs::write(index_file, buf), which
\* creates it or replaces its whole content.
Overwrite(file, buf) == File(buf, 0)

\* save_index, line 105: fs::write replaces the file; a failing write
\* leaves the old file or a truncated one.
WriteFile(t) ==
  /\ pc[t] = "write"
  /\ LET name == index_file_name(PathOf(t))
     IN \/ /\ disk' = [disk EXCEPT ![name] = Overwrite(@, Serialize(index[t]))]
           /\ AfterSave(t, {"write", "saved"})
        \/ /\ disk' \in {disk, [disk EXCEPT ![name] = File(Corrupt, 0)]}
           /\ AfterSave(t, {"write", "save_failed"})
  /\ UNCHANGED <<others, cacheLog, capacity, linkCache, lock, procs, asked, query, before, atCall>>

\* As CacheKey, but the crate's name is the key.
CacheKey_CrateName(path) == crate_name(path)

\* find, line 54: the key of the memory cache.
CacheKey(path) == into_inner(path)

\* find, lines 51-55: the insert into the memory cache under the lock.
CacheInsert(t) ==
  /\ pc[t] = "insert"
  /\ lock = t
  /\ lock' = GuardDropped(t)
  /\ LET path == PathOf(t)
         link == find_link(index[t], path)
     IN /\ linkCache' = CacheStore(linkCache, CacheKey(path), link)
        /\ Return(t, OkLink(link), {"insert"})
  /\ UNCHANGED <<others, cacheLog, capacity, disk, procs, asked, query, index, before, atCall>>

\* Time passes: the file of crate c reaches the next age.
Tick(c) ==
  /\ disk[c].exists
  /\ Older(disk[c].age) # disk[c].age
  /\ disk' = [disk EXCEPT ![c].age = Older(@)]
  /\ UNCHANGED <<others, cacheLog, capacity, linkCache, lock, procs, asked, pc, query, index,
                 result, ops, before, atCall, last>>

Next ==
  \/ \E t \in procs, q \in asked : Call(t, q)
  \/ \E t \in procs : Lock(t)
  \/ \E t \in procs : CacheGet(t)
  \/ \E t \in procs : Metadata(t)
  \/ \E t \in procs : ReadFile(t)
  \/ \E t \in procs : StartSearch(t)
  \/ \E t \in procs : GetIndex(t)
  \/ \E t \in procs : CreateDir(t)
  \/ \E t \in procs : WriteFile(t)
  \/ \E t \in procs : CacheInsert(t)
  \/ \E c \in Crates : Tick(c)

Spec == Init /\ [][Next]_vars

\* ------------------------------------------------------- two tasks

\* The queries of the two users: two items of the same crate.
AskedTwo == { <<"a">> \o Sep \o <<"R">>, <<"a">> \o Sep \o <<"S">> }

\* Two tasks handle commands at the same time (the handlers of Discord and
\* Twitch are spawned tasks); the index directory is empty.
InitTwo ==
  /\ InitCache
  /\ disk = [c \in Crates |-> Absent]
  /\ InitCalls
  /\ procs = Tasks
  /\ asked = AskedTwo
  /\ InitOthers

\* The first command of task t: find(q).
FirstCall(t, q) ==
  /\ pc[t] = "idle"
  /\ Call(t, q)

NextTwo ==
  \/ \E t \in procs, q \in asked : FirstCall(t, q)
  \/ \E t \in procs : Lock(t)
  \/ \E t \in procs : CacheGet(t)
  \/ \E t \in procs : Metadata(t)
  \/ \E t \in procs : ReadFile(t)
  \/ \E t \in procs : StartSearch(t)
  \/ \E t \in procs : GetIndex(t)
  \/ \E t \in procs : CreateDir(t)
  \/ \E t \in procs : WriteFile(t)
  \/ \E t \in procs : CacheInsert(t)
  \/ \E c \in Crates : Tick(c)

\* Every interleaving of the steps of two tasks that each call find once.
SpecTwo == InitTwo /\ [][NextTwo]_vars

\* ------------------------------------------- a new index directory

\* One task calls find, and the index directory is empty: every file that
\* comes to be there was written by save_index.
InitCold ==
  /\ InitCache
  /\ disk = [c \in Crates |-> Absent]
  /\ InitCalls
  /\ procs = {"t1"}
  /\ asked = Queries
  /\ InitOthers

SpecCold == InitCold /\ [][Next]_vars

\* ------------------------------------------------- the link cache alone

\* The keys and links given to the link cache.
TestKeys == { q \in Queries : ParseSimplePath(q).ok } \cup {<<>>}

TestLinks == { Link(<<"a">>), Link(<<"b">>) }

\* The keys without k, then k: k was touched last.
TouchedLast(k) == Append(SelectSeq(touched, LAMBDA j : j # k), k)

\* A lookup of key k, as find does it.
TestGet(k) ==
  /\ linkCache' = CacheLookup(linkCache, k)
  /\ touched' = IF LruGet(linkCache, k) # NoLink THEN TouchedLast(k) ELSE touched
  /\ cacheOp' = [op |-> "get", key |-> k, value |-> LruGet(linkCache, k),
                 evicted |-> Keys(linkCache) \ Keys(linkCache'),
                 again |-> FALSE, size |-> Len(linkCache.list)]
  /\ UNCHANGED <<others, capacity, lock, disk, procs, asked, pc, query, index, result,
                 ops, before, atCall, last>>

\* Whether the operation right before was the insert of link v for key k.
SameInsert(k, v) == cacheOp.op = "insert" /\ cacheOp.key = k /\ cacheOp.value = v

\* An insert of link v for key k, as find does it; the record keeps whether
\* it repeats the insert right before and the number of entries it found.
TestInsert(k, v) ==
  /\ linkCache' = CacheStore(linkCache, k, v)
  /\ touched' = TouchedLast(k)
  /\ cacheOp' = [op |-> "insert", key |-> k, value |-> v,
                 evicted |-> Keys(linkCache) \ Keys(linkCache'),
                 again |-> SameInsert(k, v), size |-> Len(linkCache.list)]
  /\ UNCHANGED <<others, capacity, lock, disk, procs, asked, pc, query, index, result,
                 ops, before, atCall, last>>

NextCache ==
  \/ \E k \in TestKeys : TestGet(k)
  \/ \E k \in TestKeys, v \in TestLinks : TestInsert(k, v)

\* No task calls find, and the index directory is empty.
NoFind ==
  /\ InitCache
  /\ disk = [c \in Crates |-> Absent]
  /\ InitCalls
  /\ procs = {}
  /\ asked = {}

\* Nothing but the link cache is in use.
InitCacheOnly ==
  /\ NoFind
  /\ InitOthers

\* The link cache of every capacity, under any sequence of lookups and
\* inserts.
SpecCache == InitCacheOnly /\ [][NextCache]_vars

\* ------------------------------------------------------------ access

\* The width of an id in the model, in bits (the program's ids are
\* NonZeroU64 and the database stores i64).
IdBits == 2

\* NonZeroU64
Ids == 1..(2^IdBits - 1)

\* `id.get() as i64`: the two's complement reading of the id.
as_i64(id) == IF id >= 2^(IdBits - 1) THEN id - 2^IdBits ELSE id

TwitchIds == {"1", "x"}

\* AuthorId::Discord(id)
Discord(id) == [kind |-> "discord", num |-> id, name |-> ""]

\* AuthorId::Twitch(name)
Twitch(name) == [kind |-> "twitch", num |-> 0, name |-> name]

Authors == { Discord(i) : i \in Ids } \cup { Twitch(n) : n \in TwitchIds }

\* Result<bool>
DbOk(v) == [ok |-> TRUE, val |-> v]

DbErr == [ok |-> FALSE, val |-> FALSE]

\* Result::unwrap_or
unwrap_or(res, default) == IF res.ok THEN res.val ELSE default

\* State::is_admin: whether the admins table has a row for the id, or the
\* error of the database.
is_admin(table, id) ==
  { DbOk(Cardinality({ row \in table : row = as_i64(id) }) > 0), DbErr }

\* As access, but the admin list is asked before the owners.
access_AdminFirst(settings_owners, res, a) ==
  IF a.kind = "discord"
  THEN IF unwrap_or(res, FALSE) THEN "Admin"
       ELSE IF a.num \in settings_owners THEN "Owner"
       ELSE "Standard"
  ELSE "Standard"

\* access: the level of author a, where res is what state.is_admin returns
\* for a Discord author who is no owner.
access(settings_owners, res, a) ==
  IF a.kind = "discord"
  THEN IF a.num \in settings_owners THEN "Owner"
       ELSE IF unwrap_or(res, FALSE) THEN "Admin"
       ELSE "Standard"
  ELSE "Standard"

\* What is kept of the result of state.is_admin.
LookupTag(res) == IF ~ res.ok THEN "err" ELSE IF res.val THEN "true" ELSE "false"

\* State::add_admin
AddAdmin(id) ==
  /\ admins' = admins \cup {as_i64(id)}
  /\ UNCHANGED <<outsideAccess, owners, author, lookup, level>>

\* State::remove_admin
RemoveAdmin(id) ==
  /\ admins' = admins \ {as_i64(id)}
  /\ UNCHANGED <<outsideAccess, owners, author, lookup, level>>

\* access(settings, state, author) is called for a message of author a;
\* is_admin is asked only for a Discord author who is no owner.
Access(a) ==
  /\ author' = a
  /\ \E res \in is_admin(admins, a.num) :
       /\ level' = access(owners, res, a)
       /\ lookup' = IF a.kind = "discord" /\ a.num \notin owners THEN LookupTag(res) ELSE "none"
  /\ UNCHANGED <<outsideAccess, owners, admins>>

NextAccess ==
  \/ \E id \in Ids : AddAdmin(id)
  \/ \E id \in Ids : RemoveAdmin(id)
  \/ \E a \in Authors : Access(a)

\* Any owners in the settings, no admins yet, find not in use.
InitAccess ==
  /\ NoFind
  /\ capacity = 1
  /\ NoSlash
  /\ NoParse
  /\ NoStore
  /\ NoStats
  /\ NoAdmin
  /\ owners \in SUBSET Ids
  /\ admins = {}
  /\ author = NoAuthor
  /\ lookup = "none"
  /\ level = "none"

SpecAccess == InitAccess /\ [][NextAccess]_vars

\* ------------------------------------------------- Discord slash commands

\* The most messages that wait in the queue (the program's channel holds
\* 100, main.rs:38; a full queue makes the sender wait).
MaxQueue == 2

\* The arguments the users give: names, and temperatures in whole degrees.
Words == {"serde", "rand"}

Degrees == {0, 100}

\* request::User
User_Help == [variant |-> "Help", text |-> "", value |-> 0]

User_Links == [variant |-> "Links", text |-> "", value |-> 0]

User_Ban(target) == [variant |-> "Ban", text |-> target, value |-> 0]

User_Crate(name) == [variant |-> "Crate", text |-> name, value |-> 0]

User_Today == [variant |-> "Today", text |-> "", value |-> 0]

User_Ftoc(fahrenheit) == [variant |-> "Ftoc", text |-> "", value |-> fahrenheit]

User_Ctof(celsius) == [variant |-> "Ctof", text |-> "", value |-> celsius]

\* A slash command as the user gave it.
Slash(cmd, word, value) == [cmd |-> cmd, text |-> word, value |-> value]

\* handle_message, lines 465-484: a command of a bot is ignored, any other
\* is sent to the queue as a message of its author.
handle_message(from, bot, content) ==
  /\ IF bot
     THEN UNCHANGED <<queue, invoked>>
     ELSE /\ Len(queue) < MaxQueue
          /\ queue' = Append(queue, [source |-> "Discord", content |-> content])
          /\ invoked' = Append(invoked, from)
  /\ UNCHANGED outsideSlash

\* /help
help(bot) == handle_message(Slash("help", "", 0), bot, User_Help)

\* /links
links(bot) == handle_message(Slash("links", "", 0), bot, User_Links)

\* /ban <target>
ban(bot, target) == handle_message(Slash("ban", target, 0), bot, User_Ban(target))

\* /crates <name>, lines 326-336
crates(bot, name) == handle_message(Slash("crates", name, 0), bot, User_Ban(name))

\* /today
today(bot) == handle_message(Slash("today", "", 0), bot, User_Today)

\* /ftoc <fahrenheit>
ftoc(bot, fahrenheit) ==
  handle_message(Slash("ftoc", "", fahrenheit), bot, User_Ftoc(fahrenheit))

\* /ctof <celsius>, lines 368-378
ctof(bot, celsius) ==
  handle_message(Slash("ctof", "", celsius), bot, User_Ftoc(celsius))

\* main, line 43: the handler takes the next message from the queue.
Receive ==
  /\ queue # <<>>
  /\ queue' = Tail(queue)
  /\ invoked' = Tail(invoked)
  /\ UNCHANGED outsideSlash

NextSlash ==
  \/ \E bot \in BOOLEAN : help(bot)
  \/ \E bot \in BOOLEAN : links(bot)
  \/ \E bot \in BOOLEAN, target \in Words : ban(bot, target)
  \/ \E bot \in BOOLEAN, name \in Words : crates(bot, name)
  \/ \E bot \in BOOLEAN : today(bot)
  \/ \E bot \in BOOLEAN, fahrenheit \in Degrees : ftoc(bot, fahrenheit)
  \/ \E bot \in BOOLEAN, celsius \in Degrees : ctof(bot, celsius)
  \/ Receive

\* The queue is empty, nothing else is in use.
InitSlash ==
  /\ NoFind
  /\ capacity = 1
  /\ NoAccess
  /\ NoSlash
  /\ NoParse
  /\ NoStore
  /\ NoStats
  /\ NoAdmin

SpecSlash == InitSlash /\ [][NextSlash]_vars

\* ------------------------------------------------------- text commands

\* A chat message is a tuple of pieces: a space, the `!`, or a run of other
\* characters that the parser never looks into further than to compare,
\* lower-case or read it as a number.

\* The most arguments that follow the first word of a message.
MaxArgs == 5

\* The first words of the messages: the commands that parse knows, an
\* upper-case spelling, a name that is no built-in command, and words
\* without the `!`.
FirstWords ==
  { <<"!", n>> : n \in { "owner_help", "admins", "admin", "admin_help", "custom_commands",
                        "custom_command", "stats", "STATS", "help", "crate", "ban",
                        "ftoc", "ctof", "meep" } }
    \cup { <<"stats">>, <<"hello">> }

\* The words that follow at each place.
ArgsAt(i) ==
  CASE i = 1 -> {"list", "add", "remove", "meep", "total", "current", "1.0"}
    [] i = 2 -> {"all", "discord", "twitch", "meep"}
    [] i = 3 -> {"key"}
    [] i = 4 -> {"value"}
    [] OTHER -> {"more"}

RECURSIVE ArgLists(_)
\* The lists of n arguments.
ArgLists(n) ==
  IF n = 0 THEN {<<>>}
  ELSE { Append(l, <<a>>) : l \in ArgLists(n - 1), a \in ArgsAt(n) }

\* n spaces
Spaces(n) == [i \in 1..n |-> " "]

RECURSIVE JoinWords(_, _)
\* The words with gap spaces between each two.
JoinWords(words, gap) ==
  IF words = <<>> THEN <<>>
  ELSE IF Len(words) = 1 THEN words[1]
  ELSE words[1] \o Spaces(gap) \o JoinWords(Tail(words), gap)

\* The messages: a first word and up to MaxArgs arguments, one or two
\* spaces between the words, and for some a space in front.
Texts ==
  { Spaces(lead) \o JoinWords(<<first>> \o args, gap) :
      first \in FirstWords,
      args \in UNION { ArgLists(n) : n \in 0..MaxArgs },
      gap \in 1..2,
      lead \in 0..1 }

\* char::is_whitespace
is_whitespace(c) == c = " "

\* Option<&str>
None == [some |-> FALSE, val |-> <<>>]

Some(str) == [some |-> TRUE, val |-> str]

RECURSIVE splitn(_, _)
\* str::splitn(n, char::is_whitespace): the parts between single white
\* spaces, the n-th part being all the rest.
splitn(n, str) ==
  IF n <= 1 \/ \A i \in 1..Len(str) : ~ is_whitespace(str[i])
  THEN <<str>>
  ELSE LET i == CHOOSE j \in 1..Len(str) :
                  /\ is_whitespace(str[j])
                  /\ \A k \in 1..(j - 1) : ~ is_whitespace(str[k])
       IN <<SubSeq(str, 1, i - 1)>> \o splitn(n - 1, SubSeq(str, i + 1, Len(str)))

\* str::split_whitespace: the parts between runs of white space, none of
\* them empty.
split_whitespace(str) == SelectSeq(splitn(Len(str) + 1, str), LAMBDA part : part # <<>>)

\* Iterator::next, called for the i-th time
Nth(parts, i) == IF i <= Len(parts) THEN Some(parts[i]) ELSE None

\* str::strip_prefix('!')
strip_prefix(str) ==
  IF str # <<>> /\ str[1] = "!" THEN Some(Tail(str)) ELSE None

\* str::to_lowercase
to_lowercase(str) == [i \in DOMAIN str |-> IF str[i] = "STATS" THEN "stats" ELSE str[i]]

\* str::parse::<f64>: the number, for the strings that are one (white space
\* around it is not accepted).
Numbers == [w \in {"1.0"} |-> 1]

IsNumber(str) == Len(str) = 1 /\ str[1] \in DOMAIN Numbers

\* request::Request, with the fields of all variants
Req(kind, variant, src, name, content, num) ==
  [tag |-> "Ok", kind |-> kind, variant |-> variant, source |-> src,
   name |-> name, content |-> content, num |-> num]

\* Some(Err(..)) of a message parser, Err(..) of parse
Failed(why) == [tag |-> "Err", kind |-> why, variant |-> "", source |-> "",
                name |-> <<>>, content |-> <<>>, num |-> 0]

\* None of a message parser, Ok(None) of parse
Unknown == [tag |-> "None", kind |-> "", variant |-> "", source |-> "",
            name |-> <<>>, content |-> <<>>, num |-> 0]

\* user_message: the request of a user command, Unknown for a message
\* that is none.
user_message(content, source) ==
  LET parts == splitn(2, content)
      command == strip_prefix(parts[1])
      arg == Nth(parts, 2)
      name == to_lowercase(command.val)
  IN IF ~ command.some THEN Unknown
     ELSE IF name \in {<<"help">>, <<"bot">>} /\ ~ arg.some
       THEN Req("User", "Help", "", <<>>, <<>>, 0)
     ELSE IF name = <<"commands">> /\ ~ arg.some
       THEN Req("User", "Commands", source, <<>>, <<>>, 0)
     ELSE IF name = <<"links">> /\ ~ arg.some
       THEN Req("User", "Links", "", <<>>, <<>>, 0)
     ELSE IF name \in {<<"crate">>, <<"crates">>} /\ arg.some
       THEN Req("User", "Crate", "", arg.val, <<>>, 0)
     ELSE IF name = <<"ban">> /\ arg.some
       THEN Req("User", "Ban", "", arg.val, <<>>, 0)
     ELSE IF name = <<"today">> /\ ~ arg.some
       THEN Req("User", "Today", "", <<>>, <<>>, 0)
     ELSE IF name = <<"ftoc">> /\ arg.some
       THEN IF IsNumber(arg.val)
            THEN Req("User", "Ftoc", "", <<>>, <<>>, Numbers[arg.val[1]])
            ELSE Failed("invalid float literal")
     ELSE IF name = <<"ctof">> /\ arg.some
       THEN IF IsNumber(arg.val)
            THEN Req("User", "Ctof", "", <<>>, <<>>, Numbers[arg.val[1]])
            ELSE Failed("invalid float literal")
     ELSE IF ~ arg.some
       THEN Req("User", "Custom", "", name, <<>>, 0)
     ELSE Unknown

\* The words that name a source, lines 79-84 and 89-94.
SourceNames == {<<"all">>, <<"discord">>, <<"twitch">>}

\* Option<Source> of a word that names a source
SourceOf(str) ==
  CASE str = <<"all">> -> "None"
    [] str = <<"discord">> -> "Discord"
    [] str = <<"twitch">> -> "Twitch"

\* As UnknownAction, but the message is taken for none of the parser's.
UnknownAction_Ignored(action) == Unknown

\* admin_message, line 97, and owner_message, line 125:
\* bail!("unknown action `{s}`")
UnknownAction(action) == Failed("unknown action")

\* admin_message, lines 63 and 76: the content of `add`, the fifth part of
\* the message.
AddContent(parts) == Nth(parts, 5)

\* admin_message: the request of an admin command, Unknown for a message
\* that is none.
admin_message(content) ==
  LET parts == split_whitespace(content)
      first == Nth(parts, 1)
      command == strip_prefix(first.val)
      name == to_lowercase(command.val)
      p1 == Nth(parts, 2)
      p2 == Nth(parts, 3)
      p3 == Nth(parts, 4)
      p4 == AddContent(parts)
      custom == name \in {<<"custom_commands">>, <<"custom_command">>}
  IN IF ~ first.some \/ ~ command.some THEN Unknown
     ELSE IF /\ name \in {<<"admin_help">>, <<"admin-help">>, <<"adminhelp">>, <<"ahelp">>}
             /\ ~ p1.some /\ ~ p2.some /\ ~ p3.some /\ ~ p4.some
       THEN Req("Admin", "Help", "", <<>>, <<>>, 0)
     ELSE IF custom /\ p1 = Some(<<"list">>) /\ ~ p2.some /\ ~ p3.some /\ ~ p4.some
       THEN Req("Admin", "CustomCommands::List", "", <<>>, <<>>, 0)
     ELSE IF custom /\ p1.some /\ p2.some /\ p3.some
       THEN IF p1.val = <<"add">>
            THEN IF p2.val \notin SourceNames THEN Failed("unknown source")
                 ELSE IF ~ p4.some THEN Unknown
                 ELSE Req("Admin", "CustomCommands::Add", SourceOf(p2.val), p3.val, p4.val, 0)
            ELSE IF p1.val = <<"remove">>
            THEN IF p2.val \notin SourceNames THEN Failed("unknown source")
                 ELSE Req("Admin", "CustomCommands::Remove", SourceOf(p2.val), p3.val, <<>>, 0)
            ELSE UnknownAction(p1.val)
     ELSE IF name = <<"stats">> /\ ~ p2.some /\ ~ p3.some /\ ~ p4.some
       THEN IF p1 = Some(<<"total">>)
            THEN Req("Admin", "Statistics", "Total", <<>>, <<>>, 0)
            ELSE IF p1 = Some(<<"current">>) \/ ~ p1.some
            THEN Req("Admin", "Statistics", "Current", <<>>, <<>>, 0)
            ELSE Failed("unknown statistics time")
     ELSE Unknown

\* owner_message: the request of an owner command, Unknown for a message
\* that is none (or that has no mention where it needs one).
owner_message(content, mentioned) ==
  LET parts == splitn(3, content)
      command == strip_prefix(parts[1])
      name == to_lowercase(command.val)
      p1 == Nth(parts, 2)
      p2 == Nth(parts, 3)
  IN IF ~ command.some THEN Unknown
     ELSE IF /\ name \in {<<"owner_help">>, <<"owner-help">>, <<"ownerhelp">>, <<"ohelp">>}
             /\ ~ p1.some /\ ~ p2.some
       THEN Req("Owner", "Help", "", <<>>, <<>>, 0)
     ELSE IF name \in {<<"admins">>, <<"admin">>} /\ p1 = Some(<<"list">>) /\ ~ p2.some
       THEN Req("Owner", "Admins::List", "", <<>>, <<>>, 0)
     ELSE IF name \in {<<"admins">>, <<"admin">>} /\ p1.some
       THEN IF p1.val = <<"add">>
            THEN IF mentioned = 0 THEN Unknown
                 ELSE Req("Owner", "Admins::Add", "", <<>>, <<>>, mentioned)
            ELSE IF p1.val = <<"remove">>
            THEN IF mentioned = 0 THEN Unknown
                 ELSE Req("Owner", "Admins::Remove", "", <<>>, <<>>, mentioned)
            ELSE UnknownAction(p1.val)
     ELSE Unknown

\* parse: the first of the owner, admin and user parsers that knows the
\* message gives the result; Option<Result<..>> is turned into
\* Result<Option<..>>, which the tag of the result names: Ok (a request),
\* None (Ok(None)) or Err.
parse(str, source, mentioned) ==
  IF owner_message(str, mentioned) # Unknown THEN owner_message(str, mentioned)
  ELSE IF admin_message(str) # Unknown THEN admin_message(str)
  ELSE user_message(str, source)

\* A chat message arrives, when the one before is dealt with: any of the
\* messages, from either service, with or without a mention.
Arrive ==
  /\ msgSource = "none"
  /\ \E str \in Texts, source \in {"Discord", "Twitch"}, mentioned \in 0..1 :
       /\ text' = str
       /\ msgSource' = source
       /\ mention' = mentioned
  /\ parsed' = NotParsed
  /\ UNCHANGED outsideParse

\* parse(text, source, mention) returns.
Parse ==
  /\ msgSource # "none"
  /\ parsed = NotParsed
  /\ parsed' = parse(text, msgSource, mention)
  /\ UNCHANGED <<outsideParse, text, msgSource, mention>>

\* The message is dealt with.
Handled ==
  /\ parsed # NotParsed
  /\ text' = <<>>
  /\ msgSource' = "none"
  /\ mention' = 0
  /\ parsed' = NotParsed
  /\ UNCHANGED outsideParse

NextParse ==
  \/ Arrive
  \/ Parse
  \/ Handled

InitParse ==
  /\ NoFind
  /\ capacity = 1
  /\ NoAccess
  /\ NoSlash
  /\ NoParse
  /\ NoStore
  /\ NoStats
  /\ NoAdmin

SpecParse == InitParse /\ [][NextParse]_vars

\* ------------------------------------------------ custom command store

\* The most calls that change the table.
MaxOps == 3

Sources == {"Discord", "Twitch"}

CommandNames == {"hi", "test"}

Contents == {"one", "two"}

\* A row of the table custom_cmds, whose key is (source, name).
Row(source, name, content) == [source |-> source, name |-> name, content |-> content]

\* The rows of a key.
RowsOf(table, source, name) == { row \in table : row.source = source /\ row.name = name }

\* The call has changed the table and has returned Ok (a call that the
\* database fails returns the error and changes nothing).
Logged(call) ==
  /\ Len(cmdLog) < MaxOps
  /\ cmdLog' = Append(cmdLog, call)
  /\ got' = NoGet
  /\ UNCHANGED outsideStore

\* queries/custom_cmds/add.sql: the row is inserted, in the place of the
\* row of the same source and name.
Upsert(table, source, name, content) ==
  (table \ RowsOf(table, source, name)) \cup {Row(source, name, content)}

\* As add_custom_command, but name and content are bound to the query in
\* the wrong order.
add_custom_command_Swapped(source, name, content) ==
  /\ commands' = Upsert(commands, source, content, name)
  /\ Logged([op |-> "add", source |-> source, name |-> name, content |-> content])

\* State::add_custom_command
add_custom_command(source, name, content) ==
  /\ commands' = Upsert(commands, source, name, content)
  /\ Logged([op |-> "add", source |-> source, name |-> name, content |-> content])

\* State::remove_custom_command: queries/custom_cmds/remove.sql deletes the
\* row of the source and name.
remove_custom_command(source, name) ==
  /\ commands' = commands \ RowsOf(commands, source, name)
  /\ Logged([op |-> "remove", source |-> source, name |-> name, content |-> ""])

\* State::remove_custom_command_by_name: queries/custom_cmds/remove_name.sql
\* deletes the rows of the name.
remove_custom_command_by_name(name) ==
  /\ commands' = { row \in commands : row.name # name }
  /\ Logged([op |-> "remove_name", source |-> "", name |-> name, content |-> ""])

\* State::get_custom_command: queries/custom_cmds/get.sql selects the
\* content of the source and name, and fetch_optional gives the first row
\* found, or None ("" here); an error of the database is returned.
get_custom_command(source, name) ==
  /\ \/ \E row \in RowsOf(commands, source, name) :
          got' = [ok |-> TRUE, source |-> source, name |-> name, val |-> row.content]
     \/ /\ RowsOf(commands, source, name) = {}
        /\ got' = [ok |-> TRUE, source |-> source, name |-> name, val |-> ""]
     \/ got' = [ok |-> FALSE, source |-> source, name |-> name, val |-> ""]
  /\ UNCHANGED <<outsideStore, commands, cmdLog>>

NextStore ==
  \/ \E source \in Sources, name \in CommandNames, content \in Contents :
       add_custom_command(source, name, content)
  \/ \E source \in Sources, name \in CommandNames : remove_custom_command(source, name)
  \/ \E name \in CommandNames : remove_custom_command_by_name(name)
  \/ \E source \in Sources, name \in CommandNames : get_custom_command(source, name)

\* An empty table (a new database), nothing else in use.
InitStore ==
  /\ NoFind
  /\ capacity = 1
  /\ NoAccess
  /\ NoSlash
  /\ NoParse
  /\ NoStore
  /\ NoStats
  /\ NoAdmin

SpecStore == InitStore /\ [][NextStore]_vars

\* ------------------------------------------------------------ statistics

\* The most calls of increment and erase_custom.
MaxStatOps == 4

\* The length above which increment does not track a command.
TRACKED_LEN == 50

\* BuiltinCommand
BuiltinCommand == {"Help", "Commands", "Links", "Crate", "Ban", "Today",
                   "FahrenheitToCelsius", "CelsiusToFahrenheit", "Deprecated"}

\* BuiltinCommand::name
BuiltinName(cmd) ==
  CASE cmd = "Help" -> "help"
    [] cmd = "Commands" -> "commands"
    [] cmd = "Links" -> "links"
    [] cmd = "Crate" -> "crate"
    [] cmd = "Ban" -> "ban"
    [] cmd = "Today" -> "today"
    [] cmd = "FahrenheitToCelsius" -> "ftoc"
    [] cmd = "CelsiusToFahrenheit" -> "ctof"
    [] cmd = "Deprecated" -> "deprecated"

\* BuiltinCommand::from_str: the command of a name, or "" for None.
from_str(s) ==
  IF \E cmd \in BuiltinCommand : BuiltinName(cmd) = s
  THEN CHOOSE cmd \in BuiltinCommand : BuiltinName(cmd) = s
  ELSE ""

\* The built-in commands that are used.
UsedBuiltin == {"Help", "Ban"}

\* A name of 50 bytes and one of 51.
Name50 == "aaaaaaaaaabbbbbbbbbbccccccccccddddddddddeeeeeeeeee"

Name51 == "aaaaaaaaaabbbbbbbbbbccccccccccddddddddddeeeeeeeeeef"

\* The names of the custom and unknown commands that are used: "help" is
\* the name of a built-in command as well.
UsageNames == {"me", "help", Name50, Name51}

\* Command::Builtin, Command::Custom and Command::Unknown
Builtin(cmd) == [kind |-> "builtin", name |-> cmd]

Custom(v) == [kind |-> "custom", name |-> v]

UnknownCommand(v) == [kind |-> "unknown", name |-> v]

Commands ==
  {Builtin(cmd) : cmd \in UsedBuiltin}
    \cup {Custom(v) : v \in UsageNames}
    \cup {UnknownCommand(v) : v \in UsageNames}

\* Command::str_len
str_len(cmd) == IF cmd.kind = "builtin" THEN 0 ELSE Len(cmd.name)

\* As TooLong, but a name of exactly TRACKED_LEN bytes is too long.
TooLong_Inclusive(cmd) == str_len(cmd) >= TRACKED_LEN

\* The guard of increment: "Don't track commands that are too long."
TooLong(cmd) == str_len(cmd) > TRACKED_LEN

\* A row of the table cmd_usage, whose key in a month is (kind, name).
Statistic(kind, v, count) == [kind |-> kind, name |-> v, count |-> count]

\* The rows of a key.
UsageOf(table, kind, v) == { row \in table : row.kind = kind /\ row.name = v }

\* queries/cmd_usage/increment.sql: the count of the key is one more, and
\* is 1 for a key that was not in the table.
Incremented(table, kind, v) ==
  LET rows == UsageOf(table, kind, v)
      count == IF rows = {} THEN 0 ELSE (CHOOSE row \in rows : TRUE).count
  IN  (table \ rows) \cup {Statistic(kind, v, count + 1)}

\* The call has returned Ok (a call that the database fails returns the
\* error and changes nothing).
Counted(call) ==
  /\ Len(statLog) < MaxStatOps
  /\ statLog' = Append(statLog, call)
  /\ stats' = NoStatistics
  /\ UNCHANGED outsideStats

\* Stats::increment
increment(cmd) ==
  /\ IF TooLong(cmd)
     THEN UNCHANGED cmd_usage
     ELSE LET kind == cmd.kind
              v == IF cmd.kind = "builtin" THEN BuiltinName(cmd.name) ELSE cmd.name
          IN  cmd_usage' = Incremented(cmd_usage, kind, v)
  /\ Counted([op |-> "increment", kind |-> cmd.kind, name |-> cmd.name])

\* Stats::erase_custom: queries/cmd_usage/delete.sql deletes the rows of
\* the custom command of the name.
erase_custom(v) ==
  /\ cmd_usage' = cmd_usage \ UsageOf(cmd_usage, "custom", v)
  /\ Counted([op |-> "erase_custom", kind |-> "custom", name |-> v])

\* The fold of Stats::get: a row of a built-in command is kept under the
\* command of its name, when there is one, and the other rows under their
\* names.
CommandUsage(rows) ==
  { Statistic(row.kind, from_str(row.name), row.count) :
      row \in { r \in rows : r.kind = "builtin" /\ from_str(r.name) # "" } }
    \cup { row \in rows : row.kind # "builtin" }

\* Stats::get with total = false: queries/cmd_usage/list_current.sql lists
\* the rows of this month; an error of the database is returned.
get ==
  /\ \/ stats' = [tag |-> "Ok", command_usage |-> CommandUsage(cmd_usage)]
     \/ stats' = [tag |-> "Err", command_usage |-> {}]
  /\ UNCHANGED <<outsideStats, cmd_usage, statLog>>

NextStats ==
  \/ \E cmd \in Commands : increment(cmd)
  \/ \E v \in UsageNames : erase_custom(v)
  \/ get

\* An empty table (a new database), nothing else in use.
InitStats ==
  /\ NoFind
  /\ capacity = 1
  /\ NoAccess
  /\ NoSlash
  /\ NoParse
  /\ NoStore
  /\ NoStats
  /\ NoAdmin

SpecStats == InitStats /\ [][NextStats]_vars

\* ------------------------------------- custom commands of the admins

\* 'a'..='z' and '0'..='9'
LowerCase ==
  {"a", "b", "c", "d", "e", "f", "g", "h", "i", "j", "k", "l", "m",
   "n", "o", "p", "q", "r", "s", "t", "u", "v", "w", "x", "y", "z"}

Numerals == {"0", "1", "2", "3", "4", "5", "6", "7", "8", "9"}

\* List of all pre-defined commands that can not be defined as name for
\* custom commands.
RESERVED_COMMANDS ==
  { <<"h", "e", "l", "p">>,
    <<"b", "o", "t">>,
    <<"c", "o", "m", "m", "a", "n", "d", "s">>,
    <<"l", "i", "n", "k", "s">>,
    <<"s", "c", "h", "e", "d", "u", "l", "e">>,
    <<"c", "r", "a", "t", "e">>,
    <<"c", "r", "a", "t", "e", "s">>,
    <<"d", "o", "c">>,
    <<"d", "o", "c", "s">>,
    <<"b", "a", "n">>,
    <<"t", "o", "d", "a", "y">>,
    <<"a", "d", "m", "i", "n", "_", "h", "e", "l", "p">>,
    <<"a", "d", "m", "i", "n", "-", "h", "e", "l", "p">>,
    <<"a", "d", "m", "i", "n", "h", "e", "l", "p">>,
    <<"a", "h", "e", "l", "p">>,
    <<"e", "d", "i", "t", "_", "s", "c", "h", "e", "d", "u", "l", "e">>,
    <<"o", "f", "f", "_", "d", "a", "y", "s">>,
    <<"c", "u", "s", "t", "o", "m", "_", "c", "o", "m", "m", "a", "n", "d", "s">>,
    <<"c", "u", "s", "t", "o", "m", "_", "c", "o", "m", "m", "a", "n", "d">>,
    <<"s", "t", "a", "t", "s">>,
    <<"o", "w", "n", "e", "r", "_", "h", "e", "l", "p">>,
    <<"o", "w", "n", "e", "r", "-", "h", "e", "l", "p">>,
    <<"o", "w", "n", "e", "r", "h", "e", "l", "p">>,
    <<"o", "h", "e", "l", "p">>,
    <<"a", "d", "m", "i", "n", "s">>,
    <<"a", "d", "m", "i", "n">> }

\* The names the admins ask for: hi and a_1 are well-formed; "", !hi, _a,
\* 1a, Hi, hI and h-i are not; help and stats are reserved.
AskedNames ==
  { <<"h", "i">>,
    <<"a", "_", "1">>,
    <<>>,
    <<"!", "h", "i">>,
    <<"_", "a">>,
    <<"1", "a">>,
    <<"H", "i">>,
    <<"h", "I">>,
    <<"h", "-", "i">>,
    <<"h", "e", "l", "p">>,
    <<"s", "t", "a", "t", "s">> }

\* The words given as action and as source.
ActionWords == {"add", "remove", "list"}

SourceWords == {"discord", "twitch", "all", "irc"}

\* Action::from_str, "" for the error
ParseAction(word) ==
  CASE word = "add" -> "Add"
    [] word = "remove" -> "Remove"
    [] OTHER -> ""

\* CommandSource::from_str, "" for the error
ParseCommandSource(word) ==
  CASE word = "discord" -> "Discord"
    [] word = "twitch" -> "Twitch"
    [] word = "all" -> "All"
    [] OTHER -> ""

\* update_commands, lines 235-238
starts_with_bang(name) == name # <<>> /\ name[1] = "!"

\* As starts_with_lowercase, but the first character is not looked at.
starts_with_lowercase_Unchecked(name) == TRUE

\* update_commands, lines 239-242
starts_with_lowercase(name) == name # <<>> /\ name[1] \in LowerCase

\* update_commands, lines 243-247
all_allowed(name) ==
  \A i \in 1..Len(name) : name[i] = "_" \/ name[i] \in LowerCase \/ name[i] \in Numerals

\* update_commands, lines 235-251: the error of the first check that the
\* name fails, or "Ok".
CheckName(name) ==
  IF starts_with_bang(name) THEN "must not start with an !"
  ELSE IF ~ starts_with_lowercase(name) THEN "must start with a lowercase letter"
  ELSE IF ~ all_allowed(name) THEN "only letters, numbers and underscores"
  ELSE IF name \in RESERVED_COMMANDS THEN "reserved"
  ELSE "Ok"

\* HashMap::entry(name).or_default(): the entry of the name, empty if new.
or_default(map, name) == IF name \in DOMAIN map THEN map[name] ELSE << >>

\* HashMap::insert
Insert(map, key, value) == [k \in DOMAIN map \cup {key} |-> IF k = key THEN value ELSE map[k]]

\* HashMap::remove
RemoveKey(map, key) == [k \in DOMAIN map \ {key} |-> map[k]]

\* update_commands, lines 279-283: the source is removed from the entry of
\* the name, if there is one.
RemoveSource(map, name, source) ==
  IF name \in DOMAIN map
  THEN [map EXCEPT ![name] = RemoveKey(@, source)]
  ELSE map

\* update_commands, lines 255-272: Action::Add with a content.
AddCommand(map, source, name, content) ==
  IF source = "All"
  THEN Insert(map, name, Insert(Insert(or_default(map, name), "Discord", content), "Twitch", content))
  ELSE Insert(map, name, Insert(or_default(map, name), source, content))

\* update_commands, lines 277-287: Action::Remove.
RemoveCommand(map, source, name) ==
  IF source = "All" THEN RemoveKey(map, name) ELSE RemoveSource(map, name, source)

\* list_commands: for each name the sources it is defined for.
list_commands(map) == [name \in DOMAIN map |-> DOMAIN map[name]]

\* The handler has answered res to the call for the name.
Edited(name, res) ==
  /\ edited' = [name |-> name, res |-> res]
  /\ UNCHANGED <<outsideAdmin, statLog, stats>>

\* update_commands: the checks of the name, then the change of the map (and
\* of the statistics, for a removal), then state::save, whose error is
\* returned after the change.
update_commands(action, source, name, content) ==
  IF CheckName(name) # "Ok"
  THEN /\ Edited(name, CheckName(name))
       /\ UNCHANGED <<custom_commands, cmd_usage>>
  ELSE IF action = "Add" /\ content = ""
  THEN /\ Edited(name, "no content")
       /\ UNCHANGED <<custom_commands, cmd_usage>>
  ELSE /\ IF action = "Add"
          THEN /\ custom_commands' = AddCommand(custom_commands, source, name, content)
               /\ UNCHANGED cmd_usage
          ELSE /\ custom_commands' = RemoveCommand(custom_commands, source, name)
               /\ cmd_usage' = cmd_usage \ UsageOf(cmd_usage, "custom", name)
       /\ \E res \in {"Ok", "save failed"} : Edited(name, res)

\* The custom_commands handler: action and source are parsed, and
\* update_commands is called; content is the fifth word of the message, ""
\* for none.
admin_custom_commands(word, src, name, content) ==
  IF ParseAction(word) = ""
  THEN /\ Edited(name, "unknown action")
       /\ UNCHANGED <<custom_commands, cmd_usage>>
  ELSE IF ParseCommandSource(src) = ""
  THEN /\ Edited(name, "unknown source")
       /\ UNCHANGED <<custom_commands, cmd_usage>>
  ELSE update_commands(ParseAction(word), ParseCommandSource(src), name, content)

NextAdmin ==
  \E word \in ActionWords, src \in SourceWords, name \in AskedNames,
     content \in Contents \cup {""} :
    admin_custom_commands(word, src, name, content)

\* No custom commands (a new state file), nothing else in use.
InitAdmin ==
  /\ NoFind
  /\ capacity = 1
  /\ NoAccess
  /\ NoSlash
  /\ NoParse
  /\ NoStore
  /\ NoStats
  /\ NoAdmin

SpecAdmin == InitAdmin /\ [][NextAdmin]_vars

\* ------------------------------------------------------------ claims

\* What find answers from an index: the link of the path, or that the item
\* does not exist.
AnswerFrom(idx, path) ==
  IF find_link(idx, path) # NoLink THEN OkLink(find_link(idx, path)) ELSE OkMissing(path)

Done(t) == pc[t] = "done"

\* C1: a call whose save of the fetched index failed never returns Err: it
\* returns Ok with the link, or the item-not-found message, that the fetched
\* index gives.
C1_SaveFailureIsolated ==
  \A t \in Tasks :
    "save_failed" \in ops[t] =>
      /\ index[t] \in IndexesOf(crate_name(PathOf(t)))
      /\ pc[t] \in {"lockInsert", "insert", "done"}
      /\ Done(t) => result[t] = AnswerFrom(index[t], PathOf(t))

C1_Witness ==
  \E t \in Tasks :
    /\ Done(t)
    /\ "save_failed" \in ops[t]
    /\ result[t].kind = "link"

\* C2: a call with a query that the parser rejects returns Ok with the
\* invalid-path message, whatever the memory cache and the disk hold.
C2_InvalidPathIsOk ==
  \A t \in Tasks :
    (Done(t) /\ ~ ParseSimplePath(query[t]).ok) =>
      /\ result[t].ok
      /\ result[t] = OkInvalid(query[t])

C2_Witness ==
  \E t \in Tasks :
    /\ Done(t)
    /\ query[t] = Sep
    /\ result[t] = OkInvalid(Sep)
    /\ linkCache.list # <<>>
    /\ \E c \in Crates : disk[c].exists

\* C3: when the index of the crate, loaded from disk or fetched, has no
\* link for the path, find returns Ok("Item `<path>` doesn't exist") and
\* leaves the memory cache as it was when the call started.
C3_MissingItemNotCached ==
  \A t \in Tasks :
    (Done(t) /\ index[t] # NoIndex /\ find_link(index[t], PathOf(t)) = NoLink) =>
      /\ result[t] = OkMissing(PathOf(t))
      /\ result[t].val = query[t]
      /\ "insert" \notin ops[t]
      /\ linkCache = atCall[t].cache

C3_Witness ==
  \E t \in Tasks :
    /\ Done(t)
    /\ "read" \in ops[t]
    /\ "fetched" \notin ops[t]
    /\ find_link(index[t], PathOf(t)) = NoLink
    /\ result[t].kind = "missing"
    /\ atCall[t].cache.list # <<>>

\* The call started with an empty memory cache and an empty disk store.
Cold(t) == atCall[t].cache.list = <<>> /\ atCall[t].empty_disk

\* The call has fetched an index that holds a link for its path.
FetchedLink(t) ==
  /\ "fetched" \in ops[t]
  /\ find_link(index[t], PathOf(t)) # NoLink

\* The operations of a call that read the path or touch the disk or the
\* network.
ParseAndIo == {"parse", "meta", "read", "net", "mkdir", "write"}

\* C4, as claimed: after a cold call that fetched an index with a link for
\* the path, find has returned the link, the disk holds a file for the
\* crate and the memory cache maps the query to the link.
C4_Claimed ==
  \A t \in Tasks :
    (Done(t) /\ Cold(t) /\ FetchedLink(t)) =>
      /\ result[t] = OkLink(find_link(index[t], PathOf(t)))
      /\ disk[crate_name(PathOf(t))].exists
      /\ LruGet(linkCache, query[t]) = find_link(index[t], PathOf(t))

\* C4, amended: after a cold call that fetched an index with a link for the
\* path, find has returned the link and the memory cache maps the query to
\* it; the disk holds the fetched index in the file of the crate, and
\* nothing else, if the save did not fail; and a call that follows a call
\* of the same query that returned a link returns that link without a
\* remote fetch.
C4_ColdLookup ==
  \A t \in Tasks :
    /\ (Done(t) /\ Cold(t) /\ FetchedLink(t)) =>
         /\ result[t] = OkLink(find_link(index[t], PathOf(t)))
         /\ LruGet(linkCache, query[t]) = find_link(index[t], PathOf(t))
         /\ "saved" \in ops[t] =>
              /\ disk[crate_name(PathOf(t))].exists
              /\ disk[crate_name(PathOf(t))].buf = Serialize(index[t])
              /\ \A c \in Crates \ {crate_name(PathOf(t))} : ~ disk[c].exists
    /\ before[t].link # NoLink =>
         /\ "net" \notin ops[t]
         /\ Done(t) => result[t] = OkLink(before[t].link)

C4_Witness ==
  \E t \in Tasks :
    /\ Done(t)
    /\ Cold(t)
    /\ FetchedLink(t)
    /\ "saved" \in ops[t]
    /\ result[t].kind = "link"
    /\ query[t] = <<"b">> \o Sep \o <<"R">>

\* C5, as claimed: a call that follows a call of the same query, whatever
\* that one returned, neither parses the path nor touches disk or network.
C5_Claimed ==
  \A t \in Tasks : before[t].repeat => ops[t] \cap ParseAndIo = {}

\* C5, amended: a call that follows a call of the same query that returned
\* a link neither parses the path nor touches disk or network, and returns
\* the same link from the memory cache.
C5_RepeatedQueryHitsCache ==
  \A t \in Tasks :
    before[t].link # NoLink =>
      /\ before[t].repeat
      /\ ops[t] \cap ParseAndIo = {}
      /\ pc[t] \in {"lockGet", "get", "done"}
      /\ Done(t) => result[t] = OkLink(before[t].link)

C5_Witness ==
  \E t \in Tasks :
    /\ Done(t)
    /\ before[t].link # NoLink
    /\ result[t] = OkLink(before[t].link)

\* C6, as claimed: a call whose search start was answered with a not-found
\* status (the crate does not exist) returns Ok with a "doesn't exist"
\* message.
C6_Claimed ==
  \A t \in Tasks :
    (Done(t) /\ "not_found" \in ops[t]) =>
      /\ result[t].ok
      /\ result[t].kind = "missing"

\* The errors of the remote fetch.
FetchErrors == {"not_found", "failed", "no_index", "bad_index"}

\* What a call may have met when it loaded the index from the file of the
\* crate.
DiskFailures == {"absent", "outdated", "corrupt", "io_error"}

C8_StaleFileIsMiss ==
  /\ [][\A t \in Tasks :
          (/\ pc[t] = "meta"
           /\ pc'[t] # "meta"
           /\ disk[crate_name(PathOf(t))].exists
           /\ disk[crate_name(PathOf(t))].buf.valid
           /\ disk[crate_name(PathOf(t))].age > 3)
          => /\ pc'[t] = "start_search"
             /\ index'[t] = NoIndex
             /\ "read" \notin ops'[t]]_vars
  /\ [](\A t \in Tasks :
          "outdated" \in ops[t] =>
            /\ "read" \notin ops[t]
            /\ pc[t] = "start_search" \/ "net" \in ops[t]
            /\ (Done(t) /\ result[t].ok) => "fetched" \in ops[t])

C8_Witness ==
  \E t \in Tasks :
    /\ pc[t] = "start_search"
    /\ "outdated" \in ops[t]
    /\ disk[crate_name(PathOf(t))].exists
    /\ disk[crate_name(PathOf(t))].buf.valid
    /\ disk[crate_name(PathOf(t))].age > 3

LeastRecent(keys) ==
  touched[CHOOSE i \in 1..Len(touched) :
            /\ touched[i] \in keys
            /\ \A j \in 1..(i - 1) : touched[j] \notin keys]

\* C10: the insert of a new key into a full link cache removes exactly one
\* entry, the one touched least recently by a lookup that found it or by an
\* insert; a lookup of that key then finds nothing, and every other key is
\* still there with its link.
C10_LruEviction ==
  [][(/\ cacheOp'.op = "insert"
      /\ cacheOp'.key \notin Keys(linkCache)
      /\ Len(linkCache.list) = capacity)
     => /\ Keys(linkCache') = (Keys(linkCache) \ {LeastRecent(Keys(linkCache))}) \cup {cacheOp'.key}
        /\ cacheOp'.evicted = {LeastRecent(Keys(linkCache))}
        /\ LruGet(linkCache', LeastRecent(Keys(linkCache))) = NoLink
        /\ LruGet(linkCache', cacheOp'.key) = cacheOp'.value
        /\ \A j \in Keys(linkCache) \ {LeastRecent(Keys(linkCache))} :
             LruGet(linkCache', j) = LruGet(linkCache, j)]_vars

\* An insert of a new key into a full link cache of two or more entries has
\* removed one key, the least recently touched one, which is no longer found.
C10_Witness ==
  /\ cacheOp.op = "insert"
  /\ Cardinality(cacheOp.evicted) = 1
  /\ capacity >= 2
  /\ Len(linkCache.list) = capacity
  /\ Len(touched) = capacity + 1
  /\ cacheOp.evicted = {touched[1]}
  /\ LruGet(linkCache, touched[1]) = NoLink

\* C11: inserting the same key and link twice in a row leaves the number of
\* entries of the link cache as it was after the first insert, and a lookup
\* of the key gives that link.
C11_InsertIdempotent ==
  (cacheOp.op = "insert" /\ cacheOp.again) =>
    /\ Len(linkCache.list) = cacheOp.size
    /\ Cardinality(Keys(linkCache)) = cacheOp.size
    /\ LruGet(linkCache, cacheOp.key) = cacheOp.value
    /\ LruGet(CacheLookup(linkCache, cacheOp.key), cacheOp.key) = cacheOp.value

\* The same pair was inserted twice into a cache that holds another key too.
C11_Witness ==
  /\ cacheOp.op = "insert"
  /\ cacheOp.again
  /\ Len(linkCache.list) = 2
  /\ LruGet(linkCache, cacheOp.key) = cacheOp.value

\* Tasks t and u have each completed a call for the same query that started
\* with an empty memory cache and an empty disk store and found no file
\* for the crate.
Raced(t, u) ==
  /\ t # u
  /\ Done(t) /\ Done(u)
  /\ query[t] = query[u]
  /\ Cold(t) /\ Cold(u)
  /\ "absent" \in ops[t] /\ "absent" \in ops[u]

\* The memory cache that a single call of task t leaves, given the index it
\* fetched.
SingleCache(t) ==
  IF find_link(index[t], PathOf(t)) # NoLink
  THEN CacheStore(atCall[t].cache, CacheKey(PathOf(t)), find_link(index[t], PathOf(t)))
  ELSE atCall[t].cache

\* The disk store is as a single call of task t that started with an empty
\* store leaves it: the fetched index in the file of the crate, no other
\* file.
SingleDisk(t) ==
  /\ disk[index_file_name(PathOf(t))].exists
  /\ disk[index_file_name(PathOf(t))].buf = Serialize(index[t])
  /\ \A c \in Crates \ {index_file_name(PathOf(t))} : ~ disk[c].exists

\* C12, as claimed: two cold calls for the same item that both found no
\* file for the crate have both fetched from the remote and both written
\* the file of the crate; both returned what a single call returns, and the
\* memory cache and the disk store are as a single call leaves them.
C12_Claimed ==
  \A t, u \in Tasks :
    Raced(t, u) =>
      /\ "fetched" \in ops[t] /\ "fetched" \in ops[u]
      /\ "write" \in ops[t] /\ "write" \in ops[u]
      /\ result[t] = result[u]
      /\ result[t] = AnswerFrom(index[t], PathOf(t))
      /\ linkCache = SingleCache(t)
      /\ SingleDisk(t)

\* C12, amended: two cold calls for the same item that both found no file
\* for the crate have both gone to the remote (nothing is deduplicated);
\* when both fetched the same index and both saved it, both wrote the file
\* of the crate and returned the same result, the one a single call
\* returns, and the memory cache and the disk store are as a single call
\* leaves them.
C12_NoDeduplication ==
  \A t, u \in Tasks :
    Raced(t, u) =>
      /\ "net" \in ops[t] /\ "net" \in ops[u]
      /\ ("saved" \in ops[t] /\ "saved" \in ops[u] /\ index[t] = index[u]) =>
           /\ "fetched" \in ops[t] /\ "fetched" \in ops[u]
           /\ "write" \in ops[t] /\ "write" \in ops[u]
           /\ result[t] = result[u]
           /\ result[t] = AnswerFrom(index[t], PathOf(t))
           /\ linkCache = SingleCache(t)
           /\ SingleDisk(t)

\* Both calls found the file absent and both saved the index they fetched:
\* neither had saved when the other checked the disk.
C12_Witness ==
  \E t, u \in Tasks :
    /\ Raced(t, u)
    /\ "saved" \in ops[t] /\ "saved" \in ops[u]
    /\ index[t] = index[u]
    /\ result[t].kind = "link"
    /\ result[u] = result[t]

\* The steps of find that wait for the disk or the network.
IoSteps == {"meta", "read", "start_search", "get_index", "create_dir", "write"}

\* C13: the lock of the memory cache is held only by a task that is at its
\* get or its insert; a task at a step that waits for the disk or the
\* network does not hold it, so that while one task is at such a step and
\* the other waits for the lock, the lock is free.
C13_LockNotHeldAcrossIo ==
  /\ \A t \in Tasks :
       /\ lock = t => pc[t] \in {"get", "insert"}
       /\ pc[t] \in IoSteps => lock # t
  /\ \A t, u \in Tasks :
       (t # u /\ pc[t] \in IoSteps /\ pc[u] \in {"lockGet", "lockInsert"}) => lock = "none"

\* One task waits for the network while the other holds the lock for its
\* insert.
C13_Witness ==
  \E t, u \in Tasks :
    /\ t # u
    /\ pc[t] \in {"start_search", "get_index"}
    /\ pc[u] = "insert"
    /\ lock = u

\* C14: access returns Owner for a Discord author whose id is among the
\* owners, also when the id is in the admins table; Admin for a Discord
\* author who is no owner and for whom is_admin returned Ok(true); Standard
\* for every other Discord author, also when is_admin failed; and Standard
\* for every Twitch author, whatever the owners and the admins table hold.
C14_AccessLevels ==
  author # NoAuthor =>
    /\ (author.kind = "discord" /\ author.num \in owners) => level = "Owner"
    /\ (author.kind = "discord" /\ author.num \notin owners /\ lookup = "true") =>
         level = "Admin"
    /\ (author.kind = "discord" /\ author.num \notin owners /\ lookup # "true") =>
         (level = "Standard" /\ lookup \in {"false", "err"})
    /\ author.kind = "twitch" => level = "Standard"

\* An owner who is in the admins table too was given the level Owner.
C14_Witness ==
  /\ author.kind = "discord"
  /\ author.num \in owners
  /\ as_i64(author.num) \in admins
  /\ level = "Owner"

\* The request that a slash command is documented to stand for.
Documented(slash) ==
  CASE slash.cmd = "help" -> User_Help
    [] slash.cmd = "links" -> User_Links
    [] slash.cmd = "ban" -> User_Ban(slash.text)
    [] slash.cmd = "crates" -> User_Crate(slash.text)
    [] slash.cmd = "today" -> User_Today
    [] slash.cmd = "ftoc" -> User_Ftoc(slash.value)
    [] slash.cmd = "ctof" -> User_Ctof(slash.value)

\* C15, as claimed: every message in the queue holds the request that the
\* slash command it came from stands for: Crate(name) for `crates <name>`
\* and Ctof(celsius) for `ctof <celsius>`, as Help, Links, Ban, Today and
\* Ftoc for help, links, ban, today and ftoc.
C15_Claimed ==
  /\ Len(invoked) = Len(queue)
  /\ \A i \in 1..Len(queue) : queue[i].content = Documented(invoked[i])

\* The words of the message that parse was given.
Tokens == split_whitespace(text)

\* The message has no space in front and one space between its words.
Plain == text = JoinWords(Tokens, 1)

\* The command of the message: its first word without the `!`, in lower
\* case; nothing for a first word without `!`.
CommandWord ==
  IF Tokens # <<>> /\ strip_prefix(Tokens[1]).some
  THEN to_lowercase(strip_prefix(Tokens[1]).val)
  ELSE <<>>

\* The words of the message from the n-th on, as they stand in it.
Following(n) == JoinWords([i \in 1..(Len(Tokens) - n + 1) |-> Tokens[i + n - 1]], 1)

CustomCommandWords == {<<"custom_commands">>, <<"custom_command">>}

\* C16, as claimed: for the message `!custom_command(s) add <source> <name>
\* <content>` parse gives the request CustomCommands::Add with that source
\* and name and with all that follows the name as the content, also when
\* the content is several words.
C16_Claimed ==
  (/\ parsed # NotParsed
   /\ Plain
   /\ Len(Tokens) >= 5
   /\ CommandWord \in CustomCommandWords
   /\ Tokens[2] = <<"add">>
   /\ Tokens[3] \in SourceNames)
  => parsed = Req("Admin", "CustomCommands::Add", SourceOf(Tokens[3]), Tokens[4],
                  Following(5), 0)

\* The commands that parse knows.
BuiltinWords ==
  { <<n>> : n \in { "owner_help", "owner-help", "ownerhelp", "ohelp", "admins", "admin",
                    "admin_help", "admin-help", "adminhelp", "ahelp", "custom_commands",
                    "custom_command", "stats", "help", "bot", "commands", "links", "crate",
                    "crates", "ban", "today", "ftoc", "ctof" } }

\* The message has further words after a first word that is no command
\* that parse knows.
UnknownWithWords == Len(Tokens) >= 2 /\ CommandWord \notin BuiltinWords

\* C19, as claimed: parse returns Err for `!admin(s) <action>` with a
\* mention and an action other than list, add or remove; for
\* `!custom_command(s)` with an action other than list, add or remove, or
\* with a source other than all, discord or twitch; for `!stats` with a date
\* other than total or current; and for `!ftoc` or `!ctof` with a value
\* that is no number.  It returns Ok(None) for a message with further words
\* whose first word is no built-in command.
C19_Claimed ==
  (parsed # NotParsed /\ Plain /\ Len(Tokens) >= 2) =>
    /\ (/\ CommandWord \in {<<"admins">>, <<"admin">>}
        /\ mention # 0
        /\ Tokens[2] \notin {<<"list">>, <<"add">>, <<"remove">>}) => parsed.tag = "Err"
    /\ (/\ CommandWord \in CustomCommandWords
        /\ Tokens[2] \notin {<<"list">>, <<"add">>, <<"remove">>}) => parsed.tag = "Err"
    /\ (/\ CommandWord \in CustomCommandWords
        /\ Tokens[2] \in {<<"add">>, <<"remove">>}
        /\ Len(Tokens) >= 3
        /\ Tokens[3] \notin SourceNames) => parsed.tag = "Err"
    /\ (/\ CommandWord = <<"stats">>
        /\ Tokens[2] \notin {<<"total">>, <<"current">>}) => parsed.tag = "Err"
    /\ (/\ CommandWord \in {<<"ftoc">>, <<"ctof">>}
        /\ ~ IsNumber(Following(2))) => parsed.tag = "Err"
    /\ UnknownWithWords => parsed = Unknown

\* C19, amended: parse returns Err for `!admin(s) <action>` with an action
\* other than list, add or remove, with or without a mention; for
\* `!custom_command(s) <action> <source> <name>`, with or without more
\* words, when the action is neither add nor remove or when the source is
\* none of all, discord and twitch; for `!stats <date>` with one word that
\* is neither total nor current; and for `!ftoc` or `!ctof` with a value
\* that is no number.  It returns Ok(None) for `!custom_command(s)` with one
\* or two words other than the single word list, for `!stats` with two or
\* more words, and for a message with further words whose first word is no
\* built-in command.
C19_InvalidArgumentIsErr ==
  (parsed # NotParsed /\ Plain /\ Len(Tokens) >= 2) =>
    /\ (/\ CommandWord \in {<<"admins">>, <<"admin">>}
        /\ Tokens[2] \notin {<<"list">>, <<"add">>, <<"remove">>}) => parsed.tag = "Err"
    /\ (/\ CommandWord \in CustomCommandWords
        /\ Len(Tokens) >= 4
        /\ \/ Tokens[2] \notin {<<"add">>, <<"remove">>}
           \/ Tokens[3] \notin SourceNames) => parsed.tag = "Err"
    /\ (/\ CommandWord \in CustomCommandWords
        /\ Len(Tokens) <= 3
        /\ Tokens # <<Tokens[1], <<"list">>>>) => parsed = Unknown
    /\ (/\ CommandWord = <<"stats">>
        /\ Len(Tokens) = 2
        /\ Tokens[2] \notin {<<"total">>, <<"current">>}) => parsed.tag = "Err"
    /\ (CommandWord = <<"stats">> /\ Len(Tokens) >= 3) => parsed = Unknown
    /\ (/\ CommandWord \in {<<"ftoc">>, <<"ctof">>}
        /\ ~ IsNumber(Following(2))) => parsed.tag = "Err"
    /\ UnknownWithWords => parsed = Unknown

\* parse has returned Err for `!custom_command meep all key`.
C19_Witness ==
  /\ text = JoinWords(<< <<"!", "custom_command">>, <<"meep">>, <<"all">>, <<"key">> >>, 1)
  /\ parsed = Failed("unknown action")

RECURSIVE MostRecent(_, _, _)
\* What the calls of log leave for (source, name): the content of the last
\* add for it if no remove of it, or of its name, came later; "" otherwise.
MostRecent(log, source, name) ==
  IF log = <<>> THEN ""
  ELSE LET call == log[Len(log)]
       IN IF call.op = "add" /\ call.source = source /\ call.name = name
            THEN call.content
          ELSE IF call.op = "remove" /\ call.source = source /\ call.name = name
            THEN ""
          ELSE IF call.op = "remove_name" /\ call.name = name
            THEN ""
          ELSE MostRecent(SubSeq(log, 1, Len(log) - 1), source, name)

\* C17: after any sequence of add_custom_command, remove_custom_command and
\* remove_custom_command_by_name, get_custom_command(source, name) returns
\* the content of the most recent add for (source, name) if no remove of
\* (source, name) or of the name came later, and None otherwise; the table
\* holds one row for such a key and none for any other.
C17_StoreIsMap ==
  /\ got.ok => got.val = MostRecent(cmdLog, got.source, got.name)
  /\ \A source \in Sources, name \in CommandNames :
       RowsOf(commands, source, name) =
         IF MostRecent(cmdLog, source, name) = "" THEN {}
         ELSE {Row(source, name, MostRecent(cmdLog, source, name))}

\* A second add for the same key was made, and get returned its content.
C17_Witness ==
  /\ Len(cmdLog) >= 2
  /\ cmdLog[1] = [op |-> "add", source |-> "Discord", name |-> "test", content |-> "one"]
  /\ cmdLog[2] = [op |-> "add", source |-> "Discord", name |-> "test", content |-> "two"]
  /\ got = [ok |-> TRUE, source |-> "Discord", name |-> "test", val |-> "two"]

\* The number of the calls of increment in the log for the command, since
\* the last erase_custom of its name when it is a custom command.
RECURSIVE Increments(_, _)
Increments(log, cmd) ==
  IF log = <<>> THEN 0
  ELSE LET call == log[Len(log)]
           rest == SubSeq(log, 1, Len(log) - 1)
       IN  IF call.op = "erase_custom"
           THEN IF cmd.kind = "custom" /\ call.name = cmd.name
                THEN 0
                ELSE Increments(rest, cmd)
           ELSE Increments(rest, cmd)
                  + (IF call.kind = cmd.kind /\ call.name = cmd.name THEN 1 ELSE 0)

\* The count that the returned statistics have for the command, 0 for none.
Reported(cmd) ==
  LET rows == UsageOf(stats.command_usage, cmd.kind, cmd.name)
  IN  IF rows = {} THEN 0 ELSE (CHOOSE row \in rows : TRUE).count

\* A built-in command, or one whose name is of at most 50 bytes.
Tracked(cmd) == cmd.kind = "builtin" \/ Len(cmd.name) <= TRACKED_LEN

\* C18 as claimed: get(false) reports for every command the number of the
\* calls of increment for it since the last erase_custom of its name.
C18_Claimed ==
  stats.tag = "Ok" =>
    \A cmd \in Commands : Reported(cmd) = Increments(statLog, cmd)

\* C18: get(false) reports, for every command whose name is of at most 50
\* bytes, the number of the calls of increment for it since the last
\* erase_custom of its name (all its calls, for a command that is not a
\* custom command), each row once and no row without a call; a command whose
\* name is longer is not reported, however often increment was called.
C18_TrackedCounts ==
  stats.tag = "Ok" =>
    /\ \A cmd \in Commands :
         /\ Cardinality(UsageOf(stats.command_usage, cmd.kind, cmd.name)) <= 1
         /\ Reported(cmd) = IF Tracked(cmd) THEN Increments(statLog, cmd) ELSE 0
    /\ \A row \in stats.command_usage :
         /\ row.count > 0
         /\ [kind |-> row.kind, name |-> row.name] \in Commands

\* C18: get(false) after increments of the custom command "me", of the
\* unknown command "me" and of a custom command of 51 bytes, and an
\* erase_custom of "me": the unknown command alone is reported.
C18_Witness ==
  /\ stats.tag = "Ok"
  /\ Len(statLog) = MaxStatOps
  /\ statLog[1] = [op |-> "increment", kind |-> "custom", name |-> "me"]
  /\ statLog[2] = [op |-> "increment", kind |-> "unknown", name |-> "me"]
  /\ statLog[3] = [op |-> "increment", kind |-> "custom", name |-> Name51]
  /\ statLog[4] = [op |-> "erase_custom", kind |-> "custom", name |-> "me"]
  /\ stats.command_usage = {Statistic("unknown", "me", 1)}

\* The steps of index_from_remote.
FetchSteps == {"start_search", "get_index", "create_dir", "write"}

\* The call is in the remote fetch, or was.
Fetches(t) == pc[t] \in FetchSteps \/ "net" \in ops[t]

AfterStart == {"get_index", "create_dir", "write", "lockInsert", "insert"}

\* C21 as claimed: the index is downloaded only after the download of the
\* search start, whose final status was a success (2xx) and whose body named
\* the index; a call one of whose two downloads ended with a status that is
\* not a success has fetched no index and returns Err.
C21_Claimed ==
  \A t \in Tasks :
    /\ (pc[t] \in AfterStart \/ "fetched" \in ops[t]) => "net" \in ops[t]
    /\ "not2xx" \in ops[t] =>
         /\ pc[t] \notin AfterStart
         /\ "fetched" \notin ops[t]
         /\ Done(t) => ~ result[t].ok

\* The link that the memory cache had for the query when the call was made.
CachedAtCall(t) == LruGet(atCall[t].cache, query[t])

\* The file of the crate of the call is absent or outdated.
NoFreshFile(t) ==
  PathOf(t).ok =>
    \/ ~ disk[index_file_name(PathOf(t))].exists
    \/ Outdated(disk[index_file_name(PathOf(t))])

\* C22: a call of find whose query has a link in the memory cache returns
\* that link and does nothing else (no parse, no access to the disk or to
\* the network), whatever the file of the crate is; a call that returned a
\* link leaves it in the memory cache under its query, and the passing of
\* time changes nothing in the memory cache.
C22_EntriesNeverExpire ==
  /\ [](\A t \in procs :
          /\ (Active(t) \/ Done(t)) /\ CachedAtCall(t) # NoLink
               => /\ pc[t] \in {"lockGet", "get", "done"}
                  /\ ops[t] = {}
                  /\ Done(t) => result[t] = OkLink(CachedAtCall(t))
          /\ (Done(t) /\ result[t].kind = "link")
               => LruGet(linkCache, query[t]) = result[t].val)
  /\ [][(\E c \in Crates : disk'[c].age # disk[c].age) /\ pc' = pc
          => linkCache' = linkCache]_vars

\* C22: a call has returned the link of the memory cache while the file of
\* the crate is absent or outdated.
C22_Witness ==
  \E t \in procs :
    /\ Done(t)
    /\ CachedAtCall(t) # NoLink
    /\ result[t] = OkLink(CachedAtCall(t))
    /\ PathOf(t).ok
    /\ disk[index_file_name(PathOf(t))].exists
    /\ Outdated(disk[index_file_name(PathOf(t))])

\* The file of the crate of the call.
FileOf(t) == disk[index_file_name(PathOf(t))]

Effects == {"mkdir", "write", "saved", "save_failed", "insert"}

\* The call returned Err, or the answer to a path that does not parse.
Fruitless(t) == Done(t) /\ (~ result[t].ok \/ result[t].kind = "invalid")

\* C24: a call of find that returned Err or the invalid-path message has
\* come neither to save_index nor to the insert into the memory cache, and
\* the memory cache is as it was when the call was made; the files of the
\* index directory change their content only in the write step of
\* save_index, which such a call has not taken.
C24_FailureLeavesNoTrace ==
  /\ [](\A t \in procs :
          Fruitless(t) =>
            /\ ops[t] \cap Effects = {}
            /\ linkCache = atCall[t].cache)
  /\ [][\A c \in Crates :
          (disk'[c].exists # disk[c].exists \/ disk'[c].buf # disk[c].buf)
            => \E t \in procs :
                 /\ pc[t] = "write"
                 /\ "write" \in ops'[t]
                 /\ index_file_name(PathOf(t)) = c]_vars

\* C24: a call has returned Err after a failed download, while the memory
\* cache holds a link and the index directory a file (of earlier calls).
C24_Witness ==
  \E t \in procs :
    /\ Done(t)
    /\ ~ result[t].ok
    /\ "net" \in ops[t]
    /\ linkCache.list # <<>>
    /\ ~ EmptyDisk

\* A name as the help of the admins asks for it: a lowercase letter first,
\* then lowercase letters, digits and underscores, and no reserved name.
WellFormed(name) ==
  /\ Len(name) >= 1
  /\ name[1] \in LowerCase
  /\ \A i \in 1..Len(name) : name[i] \in LowerCase \cup Numerals \cup {"_"}
  /\ name \notin RESERVED_COMMANDS

\* C25: from no custom commands, every name in custom_commands starts with
\* a lowercase letter, consists of lowercase letters, digits and
\* underscores and is not reserved; a call of the handler with a name that
\* breaks a rule is answered with an error and changes nothing.
C25_NamesWellFormed ==
  /\ [](\A name \in DOMAIN custom_commands : WellFormed(name))
  /\ [](edited.res # "none" /\ ~ WellFormed(edited.name)
          => edited.res \notin {"Ok", "save failed"})
  /\ [][(edited' # edited /\ ~ WellFormed(edited'.name))
          => custom_commands' = custom_commands]_vars

\* C25: a well-formed name is stored, and the last call, for a name with an
\* uppercase letter, was answered with the error of the characters.
C25_Witness ==
  /\ DOMAIN custom_commands # {}
  /\ edited.name = <<"h", "I">>
  /\ edited.res = "only letters, numbers and underscores"

\* C26 as claimed: no name of custom_commands has an empty map of sources,
\* and list_commands reports no command with no source.
C26_Claimed ==
  /\ \A name \in DOMAIN custom_commands : DOMAIN custom_commands[name] # {}
  /\ \A name \in DOMAIN list_commands(custom_commands) :
       list_commands(custom_commands)[name] # {}

====
